---- MODULE Spec2Model ----
(***************************************************************************)
(* CoreCutter: the kerf-aware one-dimensional cutting-stock engine of      *)
(* src/pages/helper_num_core.py (optimize_unlimited_stock_gg and its       *)
(* helpers) as a state machine.                                            *)
(*                                                                         *)
(* Numbers.  Python's int is unbounded and Decimal carries 28 significant  *)
(* digits, so lengths are kept as limb sequences ("Big": base 10000, least *)
(* significant limb first, no high zero limbs, zero is << >>).  Counts of  *)
(* pieces, quantities and multiplicities are small and stay TLA+ integers. *)
(* A float is kept as the decimal its repr prints (sign, coefficient,      *)
(* exponent), which is what Decimal(str(x)) reads back.                    *)
(***************************************************************************)
EXTENDS Integers, Sequences, FiniteSets, TLC

(***************************************************************************)
(* Python int arithmetic on limb sequences (base 10000).                   *)
(***************************************************************************)
RECURSIVE BigNorm(_)
BigNorm(s) ==
    IF s = << >> THEN << >>
    ELSE IF s[Len(s)] = 0 THEN BigNorm(SubSeq(s, 1, Len(s) - 1))
    ELSE s

RECURSIVE FromInt(_)
FromInt(n) ==
    IF n = 0 THEN << >> ELSE << n % 10000 >> \o FromInt(n \div 10000)

RECURSIVE ToInt(_)
ToInt(s) ==
    IF s = << >> THEN 0 ELSE Head(s) + 10000 * ToInt(Tail(s))

RECURSIVE AddC(_, _, _)
AddC(a, b, carry) ==
    IF a = << >> /\ b = << >>
    THEN (IF carry = 0 THEN << >> ELSE << carry >>)
    ELSE LET da == IF a = << >> THEN 0 ELSE Head(a)
             db == IF b = << >> THEN 0 ELSE Head(b)
             ta == IF a = << >> THEN << >> ELSE Tail(a)
             tb == IF b = << >> THEN << >> ELSE Tail(b)
             s  == da + db + carry
         IN  << s % 10000 >> \o AddC(ta, tb, s \div 10000)

BigAdd(a, b) == AddC(a, b, 0)

RECURSIVE CmpFrom(_, _, _)
CmpFrom(a, b, i) ==
    IF i = 0 THEN 0
    ELSE IF a[i] < b[i] THEN -1
    ELSE IF a[i] > b[i] THEN 1
    ELSE CmpFrom(a, b, i - 1)

BigCmp(a, b) ==
    IF Len(a) < Len(b) THEN -1
    ELSE IF Len(a) > Len(b) THEN 1
    ELSE CmpFrom(a, b, Len(a))

BigLe(a, b) == BigCmp(a, b) <= 0

BigLt(a, b) == BigCmp(a, b) < 0

RECURSIVE SubB(_, _, _)
SubB(a, b, borrow) ==
    IF a = << >> THEN << >>
    ELSE LET db == IF b = << >> THEN 0 ELSE Head(b)
             tb == IF b = << >> THEN << >> ELSE Tail(b)
             d  == Head(a) - db - borrow
         IN  IF d < 0 THEN << d + 10000 >> \o SubB(Tail(a), tb, 1)
             ELSE << d >> \o SubB(Tail(a), tb, 0)

\* a - b for a >= b
BigSub(a, b) == BigNorm(SubB(a, b, 0))

RECURSIVE MulC(_, _, _)
MulC(a, n, carry) ==
    IF a = << >> THEN FromInt(carry)
    ELSE LET p == Head(a) * n + carry
         IN  << p % 10000 >> \o MulC(Tail(a), n, p \div 10000)

\* a * n for a TLA+ integer n >= 0
BigMulSmall(a, n) == IF n = 0 THEN << >> ELSE MulC(a, n, 0)

\* 10^r for r in 0..3
SmallPow10(r) == << 1, 10, 100, 1000 >>[r + 1]

\* a * 10^k
BigShift(a, k) ==
    IF a = << >> \/ k <= 0 THEN a
    ELSE [i \in 1..(k \div 4) |-> 0] \o BigMulSmall(a, SmallPow10(k % 4))

\* the sum of a[j] * b[i - j + 1] over the limbs j of a that meet a limb of b
RECURSIVE ColumnSum(_, _, _, _)
ColumnSum(a, b, i, j) ==
    IF j = 0 THEN 0
    ELSE (IF i - j + 1 \in DOMAIN b THEN a[j] * b[i - j + 1] ELSE 0)
         + ColumnSum(a, b, i, j - 1)

RECURSIVE CarryNorm(_, _)
CarryNorm(cols, carry) ==
    IF cols = << >> THEN FromInt(carry)
    ELSE LET p == Head(cols) + carry
         IN  << p % 10000 >> \o CarryNorm(Tail(cols), p \div 10000)

BigMul(a, b) ==
    IF a = << >> \/ b = << >> THEN << >>
    ELSE BigNorm(CarryNorm([i \in 1..(Len(a) + Len(b) - 1) |->
                                ColumnSum(a, b, i, Len(a))], 0))

\* a // b for b > 0 (floor division; the quotient is a count of pieces)
RECURSIVE BigDiv(_, _)
BigDiv(a, b) ==
    IF BigLt(a, b) THEN 0 ELSE 1 + BigDiv(BigSub(a, b), b)

Pow10(k) == BigShift(<< 1 >>, k)

\* decimal digits of a limb 1..9999
LimbDigits(x) == IF x >= 1000 THEN 4 ELSE IF x >= 100 THEN 3 ELSE IF x >= 10 THEN 2 ELSE 1

\* number of decimal digits of a (0 for zero)
NumDigits(a) ==
    IF a = << >> THEN 0 ELSE 4 * (Len(a) - 1) + LimbDigits(a[Len(a)])

\* the p-th decimal digit of a, p = 1 for the units
DigitAt(a, p) ==
    LET i == (p - 1) \div 4 + 1
    IN  IF i \in DOMAIN a THEN (a[i] \div SmallPow10((p - 1) % 4)) % 10 ELSE 0

\* a // 10^d
DropDigits(a, d) ==
    LET q == d \div 4
        r == d % 4
        t == IF q >= Len(a) THEN << >> ELSE SubSeq(a, q + 1, Len(a))
    IN  IF r = 0 THEN t
        ELSE BigNorm([i \in 1..Len(t) |->
                 (t[i] \div SmallPow10(r))
                 + (IF i < Len(t) THEN (t[i + 1] % SmallPow10(r)) * SmallPow10(4 - r)
                                  ELSE 0)])

(***************************************************************************)
(* Decimal: [c |-> coefficient (Big), e |-> exponent], value c * 10^e.     *)
(* Only non-negative decimals reach the Decimal stage (validation rejects  *)
(* the rest before it).                                                    *)
(***************************************************************************)
\* getcontext().prec
prec == 28

\* The context's rounding of a result to prec digits (ROUND_HALF_EVEN).
DecFix(c, e) ==
    IF NumDigits(c) <= prec THEN [c |-> c, e |-> e]
    ELSE LET d    == NumDigits(c) - prec
             kept == DropDigits(c, d)
             rd   == DigitAt(c, d)
             low  == \E p \in 1..(d - 1) : DigitAt(c, p) # 0
             up   == \/ rd > 5
                     \/ rd = 5 /\ low
                     \/ rd = 5 /\ ~low /\ DigitAt(kept, 1) % 2 = 1
             r    == IF up THEN BigAdd(kept, << 1 >>) ELSE kept
         IN  IF NumDigits(r) > prec
             THEN [c |-> DropDigits(r, 1), e |-> e + d + 1]
             ELSE [c |-> r, e |-> e + d]

Min(a, b) == IF a <= b THEN a ELSE b

Max(a, b) == IF a >= b THEN a ELSE b

\* Decimal.__add__ under the context
DecAdd(a, b) ==
    LET e == Min(a.e, b.e)
    IN  DecFix(BigAdd(BigShift(a.c, a.e - e), BigShift(b.c, b.e - e)), e)

\* Decimal.__mul__ by a Python int under the context
DecMulInt(a, n) == DecFix(BigMul(a.c, n), a.e)

\* int(d.to_integral_value(rounding="ROUND_HALF_UP"))
ToIntegralHalfUp(a) ==
    IF a.e >= 0 THEN BigShift(a.c, a.e)
    ELSE LET kept == DropDigits(a.c, -a.e)
         IN  IF DigitAt(a.c, -a.e) >= 5 THEN BigAdd(kept, << 1 >>) ELSE kept

(***************************************************************************)
(* Floats, by their repr: [neg, c, e] is (-1)^neg * c * 10^e.              *)
(***************************************************************************)
Flt(n, e) == [neg |-> FALSE, c |-> FromInt(n), e |-> e]

NegFlt(n, e) == [neg |-> TRUE, c |-> FromInt(n), e |-> e]

\* x <= 0
FloatLeZero(x) == x.neg \/ x.c = << >>

\* x < 0
FloatLtZero(x) == x.neg /\ x.c # << >>

\* Decimal(str(x)) for a float x >= 0
DecimalOfStr(x) == [c |-> x.c, e |-> x.e]

\* int(x): the float x truncated toward zero
IntOf(x) ==
    LET whole == IF x.e >= 0 THEN BigShift(x.c, x.e) ELSE DropDigits(x.c, -x.e)
    IN  IF x.neg THEN -ToInt(whole) ELSE ToInt(whole)

(***************************************************************************)
(* Bounds of the explored inputs.                                          *)
(***************************************************************************)
\* most demand lines in a request
MaxItems == 2

\* largest requested quantity
MaxQty == 2

\* 1.0000000000000002, the float next above 1.0
OnePlusUlp == [neg |-> FALSE, c |-> BigAdd(Pow10(16), FromInt(2)), e |-> -16]

\* Everyday requests: master 10.0 (or the rejected 0.0), kerf 0.0, 0.5 or the
\* rejected -0.25, widths 3.0, 4.0, the oversized 12.0 and the rejected 0.0.
PlainMasterLengths == { Flt(100, -1), Flt(0, -1) }

PlainKerfs == { Flt(0, -1), Flt(5, -1), NegFlt(25, -2) }

PlainWidths == { Flt(30, -1), Flt(40, -1), Flt(120, -1), Flt(0, -1) }

\* A width of which one piece is all a core can take: 6.0 of 10.0.
LongWidths == { Flt(60, -1) }

\* Requests whose magnitudes span more than the 28 digits of the context:
\* master 1.0 with kerf 1e-30 or 1e13, widths 0.5 and 1.0000000000000002.
WideMasterLengths == { Flt(10, -1) }

\* 1e13, printed by repr as 10000000000000.0
TenTrillion == [neg |-> FALSE, c |-> Pow10(14), e |-> -1]

WideKerfs == { Flt(1, -30), TenTrillion }

WideWidths == { Flt(5, -1), OnePlusUlp }

\* A master whose sum with the kerf 1e13 is a tie at the 28th digit:
\* master 1.000000000000005 and the width 1.00000000000001.
TieMasterLengths == { [neg |-> FALSE, c |-> BigAdd(Pow10(15), FromInt(5)), e |-> -15] }

TieKerfs == { TenTrillion }

TieWidths == { [neg |-> FALSE, c |-> BigAdd(Pow10(14), FromInt(1)), e |-> -14] }

\* Requests for slivers: master 1.0, kerf 1e13 and the width 1e-30.
SliverKerfs == { TenTrillion }

SliverWidths == { Flt(1, -30) }

\* Quantities: the whole floats 0.0 .. MaxQty, and the negative -1.0 and -0.5
Quantities == { Flt(10 * q, -1) : q \in 0..MaxQty } \cup { NegFlt(10, -1), NegFlt(5, -1) }

\* Requests for one line as wide as the master.
ExactFitDemands(ml) == { << [width |-> ml, quantity |-> q] >> : q \in Quantities }

\* The example of the docstring: master 100.0, kerf 0.5, 45.0 x 4 and 36.0 x 3.
KnownMasterLength == Flt(1000, -1)

KnownKerf == Flt(5, -1)

KnownDemands ==
    << [width |-> Flt(450, -1), quantity |-> Flt(40, -1)],
       [width |-> Flt(360, -1), quantity |-> Flt(30, -1)] >>

RECURSIVE SeqsUpTo(_, _)
SeqsUpTo(S, n) ==
    IF n = 0 THEN { << >> }
    ELSE LET shorter == SeqsUpTo(S, n - 1)
         IN  shorter \cup { Append(s, x) : s \in { t \in shorter : Len(t) = n - 1 }, x \in S }

DemandLists(W) ==
    SeqsUpTo([width : W, quantity : Quantities], MaxItems)

(***************************************************************************)
(* _decimal_scale_factor and the two integer domains (STEP 2).             *)
(***************************************************************************)
RECURSIVE ScaleExp(_, _)
ScaleExp(values, k) ==
    IF values = << >> THEN k
    ELSE LET exp == -Head(values).e
         IN  ScaleExp(Tail(values), IF exp > k THEN exp ELSE k)

\* 10 ** k for the largest number k of fractional digits among values
DecimalScaleFactor(values) == Pow10(ScaleExp(values, 0))

ScaleInputs(ml, kf, widths_f) ==
    LET L_dec     == DecimalOfStr(ml)
        k_dec     == DecimalOfStr(kf)
        w_dec     == [i \in DOMAIN widths_f |-> DecimalOfStr(widths_f[i])]
        L_eff_dec == DecAdd(L_dec, k_dec)
        w_eff_dec == [i \in DOMAIN widths_f |-> DecAdd(w_dec[i], k_dec)]
        scale     == DecimalScaleFactor(<< L_eff_dec, k_dec >> \o w_eff_dec)
    IN  [ scale      |-> scale,
          L_eff      |-> ToIntegralHalfUp(DecMulInt(L_eff_dec, scale)),
          widths_eff |-> [i \in DOMAIN widths_f |->
                              ToIntegralHalfUp(DecMulInt(w_eff_dec[i], scale))],
          L          |-> ToIntegralHalfUp(DecMulInt(L_dec, scale)),
          widths     |-> [i \in DOMAIN widths_f |->
                              ToIntegralHalfUp(DecMulInt(w_dec[i], scale))],
          k          |-> ToIntegralHalfUp(DecMulInt(k_dec, scale)) ]

(***************************************************************************)
(* _generate_all_patterns: the depth-first enumeration, in its order.      *)
(* Index i runs 1..m here (0..m-1 in the source); i = m + 1 is "i == m".   *)
(***************************************************************************)
\* a faulty filter that lets the all-zero vector through
AnyVector(current) == TRUE

AnyPositive(current) == \E i \in DOMAIN current : current[i] > 0

\* a faulty loop bound: range(max_c)
CountRangeShort(max_c) == 0..(max_c - 1)

\* range(max_c + 1)
CountRange(max_c) == 0..max_c

RECURSIVE dfs(_, _, _, _, _)
RECURSIVE dfsLoop(_, _, _, _, _, _, _)
dfs(i, remaining, current, widths, max_counts) ==
    IF i = Len(widths) + 1
    THEN (IF AnyPositive(current) THEN << current >> ELSE << >>)
    ELSE LET max_c == Min(max_counts[i], BigDiv(remaining, widths[i]))
         IN  dfsLoop(i, 0, max_c, remaining, current, widths, max_counts)

\* the for loop of dfs from count c on: c, c + 1, ... while in range(max_c + 1)
dfsLoop(i, c, max_c, remaining, current, widths, max_counts) ==
    IF c \notin CountRange(max_c) THEN << >>
    ELSE dfs(i + 1, BigSub(remaining, BigMulSmall(widths[i], c)),
             [current EXCEPT ![i] = c], widths, max_counts)
         \o dfsLoop(i, c + 1, max_c, remaining, current, widths, max_counts)

\* a faulty enumerator: only the patterns of one piece
SinglePiecePatterns(L, widths) ==
    [i \in DOMAIN widths |-> [h \in DOMAIN widths |-> IF h = i THEN 1 ELSE 0]]

GenerateAllPatterns(L, widths) ==
    LET max_counts == [i \in DOMAIN widths |-> BigDiv(L, widths[i])]
    IN  dfs(1, L, [i \in DOMAIN widths |-> 0], widths, max_counts)

(***************************************************************************)
(* STEP 1: validation.  The ValueError messages of the source.             *)
(***************************************************************************)
MsgMaster == "master_length must be > 0"

MsgKerf == "kerf must be >= 0"

MsgWidth == "All item widths must be > 0"

MsgQty == "All quantities must be >= 0"

MsgOversize == "An item width is larger than master_length; impossible to cut."

MsgNoSolver == "OR-Tools CBC solver not available. Try reinstalling ortools."

MsgInfeasible == "Generated an infeasible pattern under kerf model. Bug in generation."

\* float(d["width"]) for each demand line
WidthsF(dem) == [i \in DOMAIN dem |-> dem[i].width]

\* int(d["quantity"]) for each demand line
Qty(dem) == [i \in DOMAIN dem |-> IntOf(dem[i].quantity)]

\* the message of the first check of lines 149-163 that fails, "" when none does
ValidationError(ml, kf, dem) ==
    LET bad == { i \in DOMAIN dem : FloatLeZero(dem[i].width) \/ Qty(dem)[i] < 0 }
    IN  IF FloatLeZero(ml) THEN MsgMaster
        ELSE IF FloatLtZero(kf) THEN MsgKerf
        ELSE IF bad = {} THEN ""
        ELSE LET i == CHOOSE j \in bad : \A h \in bad : j <= h
             IN  IF FloatLeZero(dem[i].width) THEN MsgWidth ELSE MsgQty

RECURSIVE SumSeq(_)
SumSeq(q) == IF q = << >> THEN 0 ELSE Head(q) + SumSeq(Tail(q))

Zero == << >>

One == << 1 >>

\* a faulty short-circuit that charges one core for nothing
OneCoreForNothing ==
    [ cores_required      |-> 1,
      total_waste         |-> [num |-> Zero, den |-> One],
      total_waste_percent |-> [num |-> Zero, den |-> One],
      cutting_plan        |-> << >> ]

\* the Result of the sum(qty) == 0 short-circuit
TrivialResult ==
    [ cores_required      |-> 0,
      total_waste         |-> [num |-> Zero, den |-> One],
      total_waste_percent |-> [num |-> Zero, den |-> One],
      cutting_plan        |-> << >> ]

\* the {} returned when the solve is not OPTIMAL
EmptyDict == << >>

(***************************************************************************)
(* STEP 4: the integer program handed to CBC, and what CBC may answer.     *)
(***************************************************************************)
Residual(r, p) == [i \in DOMAIN r |-> Max(r[i] - p[i], 0)]

AllZero(r) == \A i \in DOMAIN r : r[i] = 0

PatternSet(patterns) == { patterns[j] : j \in DOMAIN patterns }

\* the least number of patterns of P whose sum covers some residual of R, counted
\* from n; -1 when limit patterns do not suffice
RECURSIVE CoverDepth(_, _, _, _)
CoverDepth(P, R, n, limit) ==
    IF \E r \in R : AllZero(r) THEN n
    ELSE IF n >= limit THEN -1
    ELSE CoverDepth(P, { Residual(r, p) : r \in R, p \in P }, n + 1, limit)

\* a faulty solver's objective value: one core more than needed
OneCoreTooMany(patterns, qty) ==
    CoverDepth(PatternSet(patterns), { qty }, 0, SumSeq(qty)) + 1

\* the objective value of an optimal solution (-1: the program is infeasible)
OptimalValue(patterns, qty) ==
    CoverDepth(PatternSet(patterns), { qty }, 0, SumSeq(qty))

\* the multiplicity vectors x with sum(x) = n, built from patterns jmin.., that
\* cover the residual demand r
RECURSIVE Covers(_, _, _, _)
Covers(patterns, jmin, r, n) ==
    IF n = 0
    THEN (IF AllZero(r) THEN { [j \in DOMAIN patterns |-> 0] } ELSE {})
    ELSE UNION { { [y EXCEPT ![j] = @ + 1] :
                     y \in Covers(patterns, j, Residual(r, patterns[j]), n - 1) } :
                 j \in jmin..Len(patterns) }

\* a faulty solver's answers: the covers of least size and those one core larger
NearOptimalSolutions(patterns, qty) ==
    LET n == CoverDepth(PatternSet(patterns), { qty }, 0, SumSeq(qty))
    IN  IF n < 0 THEN {}
        ELSE Covers(patterns, 1, qty, n) \cup Covers(patterns, 1, qty, n + 1)

\* the solutions CBC may report as OPTIMAL: x >= 0 integer, for every item i
\* sum_j patterns[j][i] * x[j] >= qty[i], and sum(x) least
OptimalSolutions(patterns, qty) ==
    LET n == OptimalValue(patterns, qty)
    IN  IF n < 0 THEN {} ELSE Covers(patterns, 1, qty, n)

\* a faulty objective: the number of patterns in use
PatternsInUse(xs) == Cardinality({ j \in DOMAIN xs : xs[j] > 0 })

\* int(round(solver.Objective().Value())) for the objective sum(x)
ObjectiveValue(xs) == SumSeq(xs)

\* the result status of solver.Solve()
SolveStatuses(patterns, qty) ==
    IF OptimalValue(patterns, qty) < 0 THEN { "INFEASIBLE" }
    ELSE { "OPTIMAL", "FEASIBLE", "ABNORMAL", "NOT_SOLVED" }

(***************************************************************************)
(* STEPS 5 and 6: the cutting plan and the waste.                          *)
(***************************************************************************)
\* sum(pat[i] * widths[i] for i in range(m)), from item i down
RECURSIVE UsedPieces(_, _, _)
UsedPieces(pat, widths, i) ==
    IF i = 0 THEN Zero
    ELSE BigAdd(BigMulSmall(widths[i], pat[i]), UsedPieces(pat, widths, i - 1))

\* a faulty kerf count: one cut per piece
KerfPerPiece(pat, k) == BigMulSmall(k, SumSeq(pat))

\* max(0, n_pieces - 1) * k
UsedKerf(pat, k) == BigMulSmall(k, Max(0, SumSeq(pat) - 1))

\* used_total_int of one pattern
UsedTotal(pat, widths, k) ==
    BigAdd(UsedPieces(pat, widths, Len(widths)), UsedKerf(pat, k))

\* a faulty loop that also skips the patterns used once
RepeatedIndexes(xs) == { j \in DOMAIN xs : xs[j] > 1 }

\* the patterns the loop of line 253 does not skip
UsedIndexes(xs) == { j \in DOMAIN xs : xs[j] > 0 }

\* total_consumed_int over patterns 1..j
RECURSIVE TotalConsumed(_, _, _, _, _)
TotalConsumed(patterns, xs, widths, k, j) ==
    IF j = 0 THEN Zero
    ELSE BigAdd(IF j \in UsedIndexes(xs)
                THEN BigMulSmall(UsedTotal(patterns[j], widths, k), xs[j])
                ELSE Zero,
                TotalConsumed(patterns, xs, widths, k, j - 1))

\* pattern_dict: width -> count, a later item overwriting an equal width
PatternDict(pat, widths_f) ==
    [ w \in { widths_f[i] : i \in { h \in DOMAIN pat : pat[h] > 0 } } |->
        LET last == CHOOSE i \in DOMAIN pat :
                        /\ pat[i] > 0 /\ widths_f[i] = w
                        /\ \A h \in DOMAIN pat :
                               pat[h] > 0 /\ widths_f[h] = w => h <= i
        IN  pat[last] ]

\* cutting_plan over patterns 1..j, in the order of the patterns
RECURSIVE CuttingPlan(_, _, _, _)
CuttingPlan(patterns, xs, widths_f, j) ==
    IF j = 0 THEN << >>
    ELSE CuttingPlan(patterns, xs, widths_f, j - 1)
         \o (IF j \in UsedIndexes(xs)
             THEN << [ pattern |-> PatternDict(patterns[j], widths_f),
                       count   |-> xs[j] ] >>
             ELSE << >>)

\* whether the re-check of line 266 raises for some used pattern
InfeasibleUsed(patterns, xs, widths, k, L) ==
    \E j \in UsedIndexes(xs) : BigLt(L, UsedTotal(patterns[j], widths, k))

BuildResult(patterns, xs, n_cores, s, widths_f) ==
    LET total_used_length_int == BigMulSmall(s.L, n_cores)
        total_consumed_int    == TotalConsumed(patterns, xs, s.widths, s.k, Len(patterns))
        waste_int             == BigSub(total_used_length_int, total_consumed_int)
    IN  [ cores_required      |-> n_cores,
          total_waste         |-> [num |-> waste_int, den |-> s.scale],
          total_waste_percent |-> IF total_used_length_int # Zero
                                  THEN [num |-> BigMulSmall(waste_int, 100),
                                        den |-> total_used_length_int]
                                  ELSE [num |-> Zero, den |-> One],
          cutting_plan        |-> CuttingPlan(patterns, xs, widths_f, Len(patterns)) ]

(***************************************************************************)
(* One call of optimize_unlimited_stock_gg(master_length, demands, kerf),  *)
(* step by step, and a second call on the same arguments.                  *)
(***************************************************************************)
VARIABLES
    master_length,  \* argument: float
    kerf,           \* argument: float
    demands,        \* argument: list of {"width": float, "quantity": float}
    pc,             \* where the call stands
    sc,             \* scale, L_eff, widths_eff, L, widths, k (STEP 2)
    patterns,       \* the list _generate_all_patterns returned
    status,         \* the result status of solver.Solve()
    x,              \* x[j].solution_value(), rounded
    cores,          \* int(round(solver.Objective().Value()))
    outcome,        \* "running", "returned" or "raised"
    result,         \* the dict returned
    error,          \* the exception raised
    ran,            \* the steps past validation this call has run
    prev            \* cores_required and total_waste of the previous call's Result

\* The session of the Streamlit app around the engine.
VARIABLES
    session_state,  \* st.session_state: password_correct, username, password
    rendered,       \* what the last run of app.py put on the screen
    returned,       \* how check_password ended in the last run
    entered,        \* the credentials the last credentials_entered compared
    secrets         \* st.secrets: the configured username and password

\* One call of _generate_all_patterns, statement by statement.
VARIABLES
    phase,          \* "start", "running" or "returned"
    max_counts,     \* the list max_counts
    stack,          \* the frames of dfs, the innermost last
    current,        \* the list current, shared by all frames
    found,          \* the list patterns built so far
    fault           \* the exception that ended the call, "" when none

\* What display_result and _generate_plan_text computed from a Result.
VARIABLES
    cores_data,     \* the list cores_data of display_result, one entry a core
    plan_text       \* the per-core figures of the exported text

\* The input form (form_component) and what it keeps in st.session_state.
VARIABLES
    quantity_master_core,   \* the mode: TRUE for limited stock
    master_core_length,     \* the value of the length field
    master_core_qty,        \* the value of the stock field (limited stock)
    blade_size,             \* the value of the kerf field
    widgets,                \* the values of the fields size_i, qty_i on screen
    cut_pieces,             \* st.session_state.cut_pieces
    optimization_result,    \* st.session_state.optimization_result
    submission              \* what the last run of the form did

engine == << master_length, kerf, demands, pc, sc, patterns, status, x, cores,
             outcome, result, error, ran, prev >>

app == << session_state, rendered, returned, entered, secrets >>

search == << phase, max_counts, stack, current, found, fault >>

display == << cores_data, plan_text >>

form == << quantity_master_core, master_core_length, master_core_qty, blade_size,
           widgets, cut_pieces, optimization_result, submission >>

vars == << engine, app, search, display, form >>

\* what each part of the program leaves alone
outsideEngine == << app, search, display, form >>

outsideAuth == << engine, search, display, form >>

outsideSearch == << engine, app, display, form >>

outsideDisplay == << engine, app, search, form >>

outsideForm == << engine, app, search, display >>

\* a key that st.session_state does not hold
Absent == "<absent>"

NoSession == [password_correct |-> Absent, username |-> Absent, password |-> Absent]

NoEntry == [username |-> Absent, password |-> Absent]

\* a session in which app.py has not run yet
AppIdle ==
    /\ session_state = NoSession
    /\ rendered = "nothing"
    /\ returned = "not called"
    /\ entered = NoEntry
    /\ secrets = [username |-> "admin", password |-> "s3cret"]

\* the form is not on the screen
NoSubmission ==
    [ button |-> "none", message |-> "", called |-> FALSE, path |-> "",
      master_length |-> << >>, demands |-> << >>, kerf |-> << >> ]

NoResult == [stored |-> FALSE]

FormIdle ==
    /\ quantity_master_core = FALSE
    /\ master_core_length = << >>
    /\ master_core_qty = 0
    /\ blade_size = << >>
    /\ widgets = << >>
    /\ cut_pieces = << >>
    /\ optimization_result = NoResult
    /\ submission = NoSubmission

\* nothing has been displayed
NotShown == [shown |-> FALSE, exp |-> 0, cores |-> << >>]

DisplayIdle ==
    /\ cores_data = NotShown
    /\ plan_text = NotShown

\* no call of _generate_all_patterns is being traced
SearchIdle ==
    /\ phase = "start"
    /\ max_counts = << >>
    /\ stack = << >>
    /\ current = << >>
    /\ found = << >>
    /\ fault = ""

args == << master_length, kerf, demands >>

NoScaling ==
    [ scale |-> Zero, L_eff |-> Zero, widths_eff |-> << >>,
      L |-> Zero, widths |-> << >>, k |-> Zero ]

NoError == [type |-> "", msg |-> ""]

NoValue == [num |-> Zero, den |-> One]

NoPrev == [called |-> FALSE, cores_required |-> 0, total_waste |-> NoValue]

Fresh ==
    /\ pc = "validate"
    /\ sc = NoScaling
    /\ patterns = << >>
    /\ status = ""
    /\ x = << >>
    /\ cores = 0
    /\ outcome = "running"
    /\ result = EmptyDict
    /\ error = NoError
    /\ ran = {}

Init ==
    /\ \/ /\ master_length \in PlainMasterLengths
          /\ kerf \in PlainKerfs
          /\ demands \in DemandLists(PlainWidths)
       \/ /\ master_length \in WideMasterLengths
          /\ kerf \in WideKerfs
          /\ demands \in DemandLists(WideWidths)
       \/ /\ master_length \in WideMasterLengths
          /\ kerf \in SliverKerfs
          /\ demands \in DemandLists(SliverWidths)
       \/ /\ master_length \in TieMasterLengths
          /\ kerf \in TieKerfs
          /\ demands \in DemandLists(TieWidths)
       \/ /\ master_length \in PlainMasterLengths
          /\ kerf \in PlainKerfs
          /\ demands \in ExactFitDemands(master_length)
       \/ /\ master_length = KnownMasterLength
          /\ kerf = KnownKerf
          /\ demands = KnownDemands
       \/ /\ master_length \in PlainMasterLengths
          /\ kerf \in PlainKerfs
          /\ demands \in DemandLists(LongWidths)
    /\ Fresh
    /\ prev = NoPrev
    /\ AppIdle
    /\ SearchIdle
    /\ DisplayIdle
    /\ FormIdle

Raise(type, msg) ==
    /\ outcome' = "raised"
    /\ error' = [type |-> type, msg |-> msg]
    /\ result' = EmptyDict
    /\ pc' = "done"

Return(r) ==
    /\ outcome' = "returned"
    /\ result' = r
    /\ error' = NoError
    /\ pc' = "done"

Continue(next) ==
    /\ pc' = next
    /\ UNCHANGED << outcome, result, error >>

\* lines 149-174: validation, then the zero-demand short-circuit
Validate ==
    /\ pc = "validate"
    /\ LET msg == ValidationError(master_length, kerf, demands)
       IN  IF msg # "" THEN Raise("ValueError", msg)
           ELSE IF SumSeq(Qty(demands)) = 0 THEN Return(TrivialResult)
           ELSE Continue("scale")
    /\ UNCHANGED << args, sc, patterns, status, x, cores, ran, prev >>
    /\ UNCHANGED outsideEngine

\* lines 181-203: the scale factor and the effective and raw integer domains
Scale ==
    /\ pc = "scale"
    /\ sc' = ScaleInputs(master_length, kerf, WidthsF(demands))
    /\ ran' = ran \cup { "scaling" }
    /\ Continue("oversize")
    /\ UNCHANGED << args, patterns, status, x, cores, prev >>
    /\ UNCHANGED outsideEngine

\* whether the check of lines 206-208 finds an item wider than the master
Oversized(s) == \E i \in DOMAIN s.widths : BigLt(s.L, s.widths[i])

\* lines 205-208
CheckOversize ==
    /\ pc = "oversize"
    /\ IF Oversized(sc) THEN Raise("ValueError", MsgOversize)
       ELSE Continue("enumerate")
    /\ UNCHANGED << args, sc, patterns, status, x, cores, ran, prev >>
    /\ UNCHANGED outsideEngine

\* line 215
Enumerate ==
    /\ pc = "enumerate"
    /\ patterns' = GenerateAllPatterns(sc.L_eff, sc.widths_eff)
    /\ ran' = ran \cup { "enumerator" }
    /\ Continue("solve")
    /\ UNCHANGED << args, sc, status, x, cores, prev >>
    /\ UNCHANGED outsideEngine

\* what lines 239-240 do with a status that is not OPTIMAL
NotOptimal(st) ==
    /\ status' = st
    /\ Return(EmptyDict)
    /\ UNCHANGED << x, cores >>

\* lines 222-224: CreateSolver("CBC") returned None
SolverMissing ==
    /\ pc = "solve"
    /\ ran' = ran \cup { "solver" }
    /\ Raise("RuntimeError", MsgNoSolver)
    /\ UNCHANGED << args, sc, patterns, status, x, cores, prev >>
    /\ UNCHANGED outsideEngine

\* lines 226-242: the program is built and solved
Solve ==
    /\ pc = "solve"
    /\ ran' = ran \cup { "solver" }
    /\ \E st \in SolveStatuses(patterns, Qty(demands)) :
          IF st # "OPTIMAL" THEN NotOptimal(st)
          ELSE \E xs \in OptimalSolutions(patterns, Qty(demands)) :
                  /\ status' = st
                  /\ x' = xs
                  /\ cores' = ObjectiveValue(xs)
                  /\ Continue("assemble")
    /\ UNCHANGED << args, sc, patterns, prev >>
    /\ UNCHANGED outsideEngine

\* lines 248-296
Assemble ==
    /\ pc = "assemble"
    /\ ran' = ran \cup { "assembler" }
    /\ IF InfeasibleUsed(patterns, x, sc.widths, sc.k, sc.L)
       THEN Raise("RuntimeError", MsgInfeasible)
       ELSE Return(BuildResult(patterns, x, cores, sc, WidthsF(demands)))
    /\ UNCHANGED << args, sc, patterns, status, x, cores, prev >>
    /\ UNCHANGED outsideEngine

\* the caller, having got a Result with a cores_required, notes its
\* cores_required and total_waste and calls again with the same arguments
CallAgain ==
    /\ pc = "done"
    /\ outcome = "returned" /\ "cores_required" \in DOMAIN result
    /\ ~prev.called
    /\ ~cores_data.shown
    /\ prev' = [ called         |-> TRUE,
                 cores_required |-> result.cores_required,
                 total_waste    |-> result.total_waste ]
    /\ pc' = "validate"
    /\ sc' = NoScaling
    /\ patterns' = << >>
    /\ status' = ""
    /\ x' = << >>
    /\ cores' = 0
    /\ outcome' = "running"
    /\ result' = EmptyDict
    /\ error' = NoError
    /\ ran' = {}
    /\ UNCHANGED args
    /\ UNCHANGED outsideEngine

(***************************************************************************)
(* display_result and _generate_plan_text: the figures of each core.       *)
(* Lengths are integers in units of 10^exp, exp the least exponent of the  *)
(* floats involved, so that sums and differences are exact.                *)
(***************************************************************************)
RECURSIVE MinOver(_)
MinOver(S) ==
    IF S = {} THEN 0
    ELSE LET v == CHOOSE v \in S : TRUE IN Min(v, MinOver(S \ {v}))

\* the least exponent among master_length, kerf and the widths of the plan
DisplayExp(plan, ml, kf) ==
    MinOver({ ml.e, kf.e }
            \cup { w.e : w \in UNION { DOMAIN plan[n].pattern : n \in DOMAIN plan } })

\* the float f >= 0 in units of 10^exp
InUnits(f, exp) == BigShift(f.c, f.e - exp)

\* sum(int(qty) for qty in pattern.values())
RECURSIVE TotalPieces(_, _)
TotalPieces(pattern, S) ==
    IF S = {} THEN 0
    ELSE LET w == CHOOSE w \in S : TRUE
         IN  pattern[w] + TotalPieces(pattern, S \ {w})

\* sum(float(width) * int(qty) for width, qty in pattern.items())
RECURSIVE PatternLength(_, _, _)
PatternLength(pattern, S, exp) ==
    IF S = {} THEN Zero
    ELSE LET w == CHOOSE w \in S : TRUE
         IN  BigAdd(BigMulSmall(InUnits(w, exp), pattern[w]),
                    PatternLength(pattern, S \ {w}, exp))

AbsDiff(a, b) == IF BigLe(a, b) THEN BigSub(b, a) ELSE BigSub(a, b)

\* abs(pieces_length - master_length) < 1e-6
FillsTheCore(pieces_length, ml, exp) ==
    BigLt(BigShift(AbsDiff(pieces_length, ml), 6), Pow10(0 - exp))

\* a kerf loss of one cut for every cut made
KerfOfCuts(pieces_length, total_pieces, ml, kf, exp) ==
    BigMulSmall(kf, Max(0, total_pieces - 1))

\* kerf_loss = 0.0 if abs(pieces_length - master_length) < 1e-6 else float(kerf)
KerfLoss(pieces_length, total_pieces, ml, kf, exp) ==
    IF FillsTheCore(pieces_length, ml, exp) THEN Zero ELSE kf

\* the figures of one core cut by the pattern of a plan entry
CoreFigures(pattern, master_len, kf_f, exp) ==
    LET ml            == InUnits(master_len, exp)
        kf            == InUnits(kf_f, exp)
        total_pieces  == TotalPieces(pattern, DOMAIN pattern)
        pieces_length == PatternLength(pattern, DOMAIN pattern, exp)
        kerf_loss     == KerfLoss(pieces_length, total_pieces, ml, kf, exp)
        used_length   == BigAdd(pieces_length, kerf_loss)
    IN  [ pattern       |-> pattern,
          total_pieces  |-> total_pieces,
          pieces_length |-> pieces_length,
          kerf_loss     |-> kerf_loss,
          used_length   |-> used_length,
          waste         |-> [neg |-> BigLt(ml, used_length),
                             mag |-> AbsDiff(ml, used_length)] ]

\* for pattern_info in cutting_plan: for rep in range(count): one core each
RECURSIVE CoresOfPlan(_, _, _, _, _)
CoresOfPlan(plan, n, master_len, kf_f, exp) ==
    IF n = 0 THEN << >>
    ELSE CoresOfPlan(plan, n - 1, master_len, kf_f, exp)
         \o [rep \in 1..plan[n].count |->
                CoreFigures(plan[n].pattern, master_len, kf_f, exp)]

\* if master_length is None or master_length <= 0: master_length = 100.0
DisplayLength(master_len) ==
    IF FloatLeZero(master_len) THEN Flt(1000, -1) ELSE master_len

\* cores_data of display_result
CoresData(plan, master_len, kf_f) ==
    LET exp == DisplayExp(plan, DisplayLength(master_len), kf_f)
    IN  [ shown |-> TRUE,
          exp   |-> exp,
          cores |-> CoresOfPlan(plan, Len(plan), DisplayLength(master_len), kf_f, exp) ]

\* max(0, waste)
ClipWaste(core) ==
    [core EXCEPT !.waste = IF core.waste.neg THEN [neg |-> FALSE, mag |-> Zero]
                           ELSE core.waste]

\* the per-core lines of _generate_plan_text
PlanText(plan, master_len, kf_f) ==
    LET exp   == DisplayExp(plan, master_len, kf_f)
        lines == CoresOfPlan(plan, Len(plan), master_len, kf_f, exp)
    IN  [ shown |-> TRUE,
          exp   |-> exp,
          cores |-> [c \in DOMAIN lines |-> ClipWaste(lines[c])] ]

\* result.get("cutting_plan", [])
GetPlan(r) == IF "cutting_plan" \in DOMAIN r THEN r.cutting_plan ELSE << >>

\* landing_page hands the stored Result, master_length and kerf to
\* display_result, which also builds the text for export; the app displays
\* the Result of the one call it made
DisplayResult ==
    /\ pc = "done"
    /\ outcome = "returned"
    /\ ~prev.called
    /\ ~cores_data.shown
    /\ LET cutting_plan == GetPlan(result) IN
       /\ cores_data' = CoresData(cutting_plan, master_length, kerf)
       /\ plan_text' = PlanText(cutting_plan, DisplayLength(master_length), kerf)
    /\ UNCHANGED outsideDisplay

Next ==
    \/ Validate
    \/ Scale
    \/ CheckOversize
    \/ Enumerate
    \/ SolverMissing
    \/ Solve
    \/ Assemble
    \/ CallAgain
    \/ DisplayResult

Spec == Init /\ [][Next]_vars

(***************************************************************************)
(* _generate_all_patterns on its own: the call of line 215 on any          *)
(* capacity 0..MaxLeff and any list of positive widths.                    *)
(***************************************************************************)
\* largest capacity L_eff handed to the enumerator
MaxLeff == 10

\* largest width_eff handed to the enumerator
MaxWidthEff == 4

InitEnum ==
    /\ master_length = Flt(0, -1)
    /\ kerf = Flt(0, -1)
    /\ demands = << >>
    /\ pc = "enumerate"
    /\ \E l \in 0..MaxLeff, ws \in SeqsUpTo(1..MaxWidthEff, MaxItems) :
          sc = [ NoScaling EXCEPT !.L_eff = FromInt(l),
                                  !.widths_eff = [i \in DOMAIN ws |-> FromInt(ws[i])] ]
    /\ patterns = << >>
    /\ status = ""
    /\ x = << >>
    /\ cores = 0
    /\ outcome = "running"
    /\ result = EmptyDict
    /\ error = NoError
    /\ ran = {}
    /\ prev = NoPrev
    /\ AppIdle
    /\ SearchIdle
    /\ DisplayIdle
    /\ FormIdle

SpecEnum == InitEnum /\ [][Enumerate]_vars

(***************************************************************************)
(* What the claims speak of.                                               *)
(***************************************************************************)
Done == pc = "done"

\* the call returned a Result that carries a cores_required
ReturnedResult == outcome = "returned" /\ "cores_required" \in DOMAIN result

\* a cutting plan was assembled from the solver's answer
ReturnedPlan == ReturnedResult /\ "assembler" \in ran

\* a < b for floats a, b >= 0
FloatLt(a, b) ==
    LET e == Min(a.e, b.e)
    IN  BigLt(BigShift(a.c, a.e - e), BigShift(b.c, b.e - e))

InvalidConfiguration ==
    \/ FloatLeZero(master_length)
    \/ FloatLtZero(kerf)
    \/ \E i \in DOMAIN demands :
          FloatLeZero(demands[i].width) \/ FloatLtZero(demands[i].quantity)

ValidationMessages == { MsgMaster, MsgKerf, MsgWidth, MsgQty }

SomeOversized ==
    \E i \in DOMAIN demands : FloatLt(master_length, demands[i].width)

\* f <= n for a float f and an integer n >= 0
QuantityAtMost(f, n) ==
    \/ f.neg
    \/ IF f.e >= 0 THEN BigLe(BigShift(f.c, f.e), FromInt(n))
       ELSE BigLe(f.c, BigShift(FromInt(n), -f.e))

DistinctWidths ==
    \A i, j \in DOMAIN demands : i # j => demands[i].width # demands[j].width

\* the largest element of a non-empty set of integers
SetMax(S) == CHOOSE n \in S : \A h \in S : h <= n

\* every non-zero count vector c with sum_i c[i] * ws[i] <= L
FeasiblePatterns(L, ws) ==
    LET cap == SetMax({ BigDiv(L, ws[i]) : i \in DOMAIN ws } \cup { 0 })
        vectors == { c : c \in [DOMAIN ws -> 0..cap] }
    IN  { c \in vectors :
            /\ \E i \in DOMAIN ws : c[i] > 0
            /\ BigLe(UsedPieces(c, ws, Len(ws)), L) }

\* whether some n patterns of F (repetition allowed) cover the demand r: any
\* cover holds a pattern that cuts the first line still short, so the search
\* takes such a pattern first
RECURSIVE CoverOfSize(_, _, _)
CoverOfSize(F, r, n) ==
    IF \A i \in DOMAIN r : r[i] <= 0 THEN TRUE
    ELSE IF n = 0 THEN FALSE
    ELSE LET i0 == CHOOSE i \in DOMAIN r :
                      r[i] > 0 /\ \A h \in DOMAIN r : h < i => r[h] <= 0
         IN  \E p \in F :
                /\ p[i0] > 0
                /\ CoverOfSize(F, [i \in DOMAIN r |-> r[i] - p[i]], n - 1)

\* the j of the n-th pattern with x[j] > 0: the pattern plan entry n was built from
PlanIndex(n) ==
    CHOOSE j \in UsedIndexes(x) : Cardinality({ h \in UsedIndexes(x) : h <= j }) = n

\* C1: a returned cores_required is the least number of cores over all plans of
\* feasible patterns that cover the demand: the chosen multiplicities cover it
\* with cores_required cores, and no cores_required - 1 feasible patterns do.
C1_CoresOptimal ==
    Done /\ ReturnedPlan =>
        LET F == FeasiblePatterns(sc.L_eff, sc.widths_eff)
            q == Qty(demands)
        IN  /\ result.cores_required = SumSeq(x)
            /\ \A j \in UsedIndexes(x) : patterns[j] \in F
            /\ \A i \in DOMAIN q :
                  /\ SumSeq([j \in DOMAIN x |-> patterns[j][i] * x[j]]) >= q[i]
                  /\ QuantityAtMost(demands[i].quantity, q[i])
            /\ result.cores_required >= 1
            /\ ~CoverOfSize(F, q, result.cores_required - 1)

\* C1's case: a plan of two cores was returned for a two-line demand
C1_Witness ==
    Done /\ ReturnedPlan /\ result.cores_required = 2 /\ Len(demands) = 2

\* C2: the returned cutting plan covers every demand line, counting for each
\* entry the pattern it was built from times the entry's count; and when the
\* widths are pairwise distinct, counting the entry's own width -> count mapping.
C2_DemandCovered ==
    Done /\ ReturnedResult =>
        LET plan == result.cutting_plan
        IN  \A i \in DOMAIN demands :
              /\ QuantityAtMost(demands[i].quantity,
                     SumSeq([n \in DOMAIN plan |->
                               patterns[PlanIndex(n)][i] * plan[n].count]))
              /\ DistinctWidths =>
                   QuantityAtMost(demands[i].quantity,
                     SumSeq([n \in DOMAIN plan |->
                               (IF demands[i].width \in DOMAIN plan[n].pattern
                                THEN plan[n].pattern[demands[i].width] ELSE 0)
                               * plan[n].count]))

\* C2's case: a plan of two entries, one of them used twice
C2_Witness ==
    /\ Done /\ ReturnedPlan /\ DistinctWidths
    /\ Len(result.cutting_plan) = 2
    /\ \E n \in DOMAIN result.cutting_plan : result.cutting_plan[n].count = 2

\* the enumerator has returned
Enumerated == pc = "solve"

\* sum_i p[i] * ws[i] as a TLA+ integer
Weight(p, ws) == SumSeq([i \in DOMAIN ws |-> p[i] * ToInt(ws[i])])

\* C3: every pattern the enumerator returns fits the capacity, has only
\* non-negative counts and is not the all-zero vector.
C3_PatternsFeasible ==
    Enumerated =>
        \A j \in DOMAIN patterns :
            /\ Len(patterns[j]) = Len(sc.widths_eff)
            /\ Weight(patterns[j], sc.widths_eff) <= ToInt(sc.L_eff)
            /\ \A i \in DOMAIN patterns[j] : patterns[j][i] >= 0
            /\ \E i \in DOMAIN patterns[j] : patterns[j][i] > 0

\* C3's case: capacity 7 and two widths, filled exactly by a pattern that uses both
C3_Witness ==
    /\ Enumerated /\ Len(sc.widths_eff) = 2 /\ sc.L_eff = FromInt(7)
    /\ \E j \in DOMAIN patterns :
          /\ Weight(patterns[j], sc.widths_eff) = 7
          /\ \A i \in DOMAIN patterns[j] : patterns[j][i] > 0

\* C4: the enumerator returns every non-zero count vector that fits the
\* capacity, each exactly once; for capacity 10 and widths 3, 4 these are the
\* seven patterns (0,1) (0,2) (1,0) (1,1) (2,0) (2,1) (3,0).
C4_PatternsExhaustive ==
    Enumerated =>
        LET L  == ToInt(sc.L_eff)
            ws == sc.widths_eff
            fitting == { c \in [DOMAIN ws -> 0..L] :
                           /\ \E i \in DOMAIN ws : c[i] > 0
                           /\ Weight(c, ws) <= L }
        IN  /\ PatternSet(patterns) = fitting
            /\ \A i, j \in DOMAIN patterns : i # j => patterns[i] # patterns[j]
            /\ L = 10 /\ ws = << FromInt(3), FromInt(4) >> =>
                  /\ Len(patterns) = 7
                  /\ PatternSet(patterns) =
                       { <<0, 1>>, <<0, 2>>, <<1, 0>>, <<1, 1>>, <<2, 0>>, <<2, 1>>, <<3, 0>> }

\* C4's case: the instance of capacity 10 and widths 3, 4 with its seven patterns,
\* among them the non-maximal (1,0)
C4_Witness ==
    /\ Enumerated
    /\ sc.L_eff = FromInt(10) /\ sc.widths_eff = << FromInt(3), FromInt(4) >>
    /\ Len(patterns) = 7
    /\ \E j \in DOMAIN patterns : patterns[j] = <<1, 0>>

\* C5: the re-check of line 266 never fails: the "infeasible pattern"
\* RuntimeError is raised in no call.
C5_RecheckNeverFails ==
    ~(outcome = "raised" /\ error.msg = MsgInfeasible)

\* equality of two values num / den
SameValue(a, b) == BigMul(a.num, b.den) = BigMul(b.num, a.den)

C7_OversizedRejected ==
    ~InvalidConfiguration /\ SomeOversized /\ SumSeq(Qty(demands)) > 0 =>
        /\ pc \notin { "enumerate", "solve", "assemble" }
        /\ Done => outcome = "raised" /\ error.msg = MsgOversize

\* C8: a solve that ends in a status other than OPTIMAL makes the call fail:
\* it raises and returns nothing.
C8_NotOptimalRaises ==
    Done /\ status \notin { "", "OPTIMAL" } => outcome = "raised"

\* C9: an invalid configuration (master_length <= 0, kerf < 0, a width <= 0 or
\* a quantity < 0) ends in one of the validation errors, with nothing returned
\* and no later step run, whatever the other arguments.
C9_InvalidRejected ==
    Done /\ InvalidConfiguration =>
        /\ outcome = "raised"
        /\ error.type = "ValueError"
        /\ error.msg \in ValidationMessages
        /\ result = EmptyDict
        /\ ran = {}

RECURSIVE PiecesLength(_, _)
PiecesLength(p, i) ==
    IF i = 0 THEN Zero
    ELSE BigAdd(BigMulSmall(sc.widths[i], p[i]), PiecesLength(p, i - 1))

LeftOver(p) ==
    LET n == SumSeq(p)
        cuts == IF n >= 1 THEN n - 1 ELSE 0
    IN  BigSub(sc.L, BigAdd(PiecesLength(p, Len(p)), BigMulSmall(sc.k, cuts)))

\* sum over the patterns 1..j of LeftOver * x[j]
RECURSIVE LeftOverSum(_)
LeftOverSum(j) ==
    IF j = 0 THEN Zero
    ELSE BigAdd(IF x[j] > 0 THEN BigMulSmall(LeftOver(patterns[j]), x[j]) ELSE Zero,
                LeftOverSum(j - 1))

\* C11: in every returned Result cores_required is the sum of the counts of
\* the plan entries, and total_waste * scale is the sum over the patterns of
\* (raw_L - used_j) * x[j]; total_waste being the quotient waste_int / scale.
C11_WasteConserved ==
    Done /\ ReturnedResult =>
        LET plan == result.cutting_plan
        IN  /\ result.cores_required = SumSeq([n \in DOMAIN plan |-> plan[n].count])
            /\ ReturnedPlan =>
                  /\ result.cores_required = SumSeq(x)
                  /\ BigMul(result.total_waste.num, sc.scale)
                       = BigMul(LeftOverSum(Len(x)), result.total_waste.den)
            /\ ~ReturnedPlan => result.total_waste.num = Zero

\* C11's case: a plan of two cores cut with kerf 0.5, one of them into several
\* pieces, with something left over
C11_Witness ==
    /\ Done /\ ReturnedPlan /\ result.cores_required = 2
    /\ sc.k # Zero
    /\ \E j \in DOMAIN x : x[j] > 0 /\ SumSeq(patterns[j]) >= 2
    /\ result.total_waste.num # Zero

\* a value num / den is below the integer n
ValueBelow(v, n) == BigLt(v.num, BigMulSmall(v.den, n))

\* the demand widths pattern p cuts at least once
WidthsCut(p) == { demands[i].width : i \in { h \in DOMAIN p : p[h] > 0 } }

\* C12: every returned Result is well formed: cores_required >= 0, total_waste
\* >= 0, 0 <= total_waste_percent < 100 and 0 when cores_required = 0, every
\* plan entry has a count >= 1, and for pairwise distinct widths the mapping of
\* each entry is non-empty, lists exactly the widths its pattern cuts, and its
\* counts sum to the pattern's number of pieces.
C12_WellFormed ==
    Done /\ ReturnedResult =>
        LET plan == result.cutting_plan
        IN  /\ result.cores_required >= 0
            /\ result.total_waste.den # Zero
            /\ ValueBelow(result.total_waste_percent, 100)
            /\ result.cores_required = 0 => result.total_waste_percent.num = Zero
            /\ \A n \in DOMAIN plan :
                  /\ plan[n].count >= 1
                  /\ DistinctWidths =>
                       LET p == patterns[PlanIndex(n)]
                           d == plan[n].pattern
                       IN  /\ DOMAIN d # {}
                           /\ DOMAIN d = WidthsCut(p)
                           /\ SumSeq([i \in DOMAIN p |->
                                        IF p[i] > 0 THEN d[demands[i].width] ELSE 0])
                                = SumSeq(p)

\* one demand line as wide as the master, N >= 1 pieces of it, and no kerf
ExactFit ==
    /\ ~FloatLeZero(master_length)
    /\ kerf = Flt(0, -1)
    /\ Len(demands) = 1
    /\ demands[1].width = master_length
    /\ IntOf(demands[1].quantity) >= 1

\* C13: for one demand line with width = master_length, quantity N >= 1 and
\* kerf 0, a solve that ends OPTIMAL returns cores_required = N and
\* total_waste = 0, and whatever the solve, no other Result is returned.
C13_ExactFitBoundary ==
    Done /\ ExactFit =>
        /\ status = "OPTIMAL" => ReturnedPlan
        /\ ReturnedResult =>
              /\ QuantityAtMost(demands[1].quantity, result.cores_required)
              /\ result.cores_required = IntOf(demands[1].quantity)
              /\ result.total_waste.num = Zero
              /\ result.cutting_plan =
                   << [ pattern |-> (master_length :> 1),
                        count   |-> result.cores_required ] >>

\* C13's case: two pieces as wide as the master, cut from two cores
C13_Witness ==
    /\ Done /\ ExactFit /\ ReturnedPlan
    /\ IntOf(demands[1].quantity) = 2
    /\ result.cores_required = 2

\* the docstring's instance
KnownInstance ==
    master_length = KnownMasterLength /\ kerf = KnownKerf /\ demands = KnownDemands

\* The instance in tenths of an inch, and the ways to cut one core of it:
\* a pieces of 45 and b pieces of 36 with a kerf between neighbours.
KnownCuts ==
    { p \in { << a, b >> : a \in 0..2, b \in 0..2 } :
        /\ p[1] + p[2] >= 1
        /\ 450 * p[1] + 360 * p[2] + 5 * (p[1] + p[2] - 1) <= 1000 }

\* no core of the instance holds three pieces
KnownCutsComplete == 3 * 360 + 2 * 5 > 1000

\* the least number of cores over all plans that cover 45 x 4 and 36 x 3
KnownOptimum ==
    CHOOSE n \in 0..7 :
        /\ CoverOfSize(KnownCuts, << 4, 3 >>, n)
        /\ n > 0 => ~CoverOfSize(KnownCuts, << 4, 3 >>, n - 1)

\* C14: for master 100, kerf 0.5 and demands 45 x 4, 36 x 3, a solve that ends
\* OPTIMAL returns a plan, and a returned cores_required is the optimum found
\* by exhaustive search over the kerf-aware cuts of one core, which is 4.
C14_KnownInstance ==
    Done /\ KnownInstance =>
        /\ KnownCutsComplete
        /\ status = "OPTIMAL" => ReturnedPlan
        /\ ReturnedResult =>
              /\ result.cores_required = KnownOptimum
              /\ result.cores_required = 4

\* C14's case: the instance solved with four cores, three of them cut into
\* one piece of each width
C14_Witness ==
    /\ Done /\ KnownInstance /\ ReturnedPlan
    /\ result.cores_required = 4
    /\ \E j \in DOMAIN x : x[j] = 3 /\ patterns[j] = << 1, 1 >>

\* the pattern of one piece of item i and nothing else
SingleItemPattern(i) == [h \in DOMAIN demands |-> IF h = i THEN 1 ELSE 0]

\* C15: once the oversized check has passed and the enumerator has run, every
\* width_eff is at most L_eff, the pattern set holds the single-item pattern of
\* every demand line, and some choice of patterns covers the demand.
C15_ProgramFeasible ==
    "enumerator" \in ran =>
        /\ \A i \in DOMAIN demands : BigLe(sc.widths_eff[i], sc.L_eff)
        /\ \A i \in DOMAIN demands : SingleItemPattern(i) \in PatternSet(patterns)
        /\ patterns # << >>
        /\ CoverOfSize(PatternSet(patterns), Qty(demands), SumSeq(Qty(demands)))

\* the number of fractional digits of the float f
FractionalDigits(f) == IF f.e < 0 THEN -f.e ELSE 0

\* the integer n is the float f times 10^s, exactly
ExactlyScaled(f, n, s) == f.e + s >= 0 /\ n = BigShift(f.c, f.e + s)

\* C16: scale is 10 to the largest number of fractional digits among
\* master_length, kerf and the widths (the digits of the sums master_length +
\* kerf and width + kerf); L, k and every width are the inputs times scale
\* exactly; and L_eff = L + k and width_eff[i] = width[i] + k.
C16_ScalingExact ==
    "scaling" \in ran =>
        LET s == SetMax({ FractionalDigits(master_length), FractionalDigits(kerf) }
                        \cup { FractionalDigits(demands[i].width) : i \in DOMAIN demands })
        IN  /\ sc.scale = Pow10(s)
            /\ ExactlyScaled(master_length, sc.L, s)
            /\ ExactlyScaled(kerf, sc.k, s)
            /\ \A i \in DOMAIN demands : ExactlyScaled(demands[i].width, sc.widths[i], s)
            /\ sc.L_eff = BigAdd(sc.L, sc.k)
            /\ \A i \in DOMAIN demands : sc.widths_eff[i] = BigAdd(sc.widths[i], sc.k)

(***************************************************************************)
(* The login gate: auth.check_password, called first thing by app.py.      *)
(***************************************************************************)

\* what a visitor can type into a text field
Texts == { "", "admin", "Admin", "admin ", "s3cret", "guest" }

\* the configurations of st.secrets
Secrets ==
    { [username |-> "admin", password |-> "s3cret"],
      [username |-> "s3cret", password |-> "admin"],
      [username |-> "admin", password |-> "admin"],
      [username |-> "admin", password |-> ""] }

\* a comparison that is satisfied by one matching field
EitherMatches(ss, sec) ==
    \/ ss.username = sec.username
    \/ ss.password = sec.password

\* the condition of credentials_entered
CredentialsMatch(ss, sec) ==
    /\ ss.username = sec.username
    /\ ss.password = sec.password

\* the on_change callback of both text fields
credentials_entered(ss, sec) ==
    IF CredentialsMatch(ss, sec)
    THEN [password_correct |-> "True", username |-> Absent, password |-> Absent]
    ELSE [ss EXCEPT !.password_correct = "False"]

\* st.text_input(key = k): a key the session does not hold starts empty
TextInput(ss, k) == IF ss[k] = Absent THEN [ss EXCEPT ![k] = ""] ELSE ss

\* one run of check_password: the session it leaves, how it ended
\* and what is on the screen
check_password(ss) ==
    IF ss.password_correct = "True"
    THEN [session |-> ss, returned |-> "True", screen |-> "page"]
    ELSE [session  |-> TextInput(TextInput(ss, "username"), "password"),
          returned |-> "stopped",
          screen   |-> IF ss.password_correct = "False"
                       THEN "login with error" ELSE "login"]

\* one run of app.py: the header and the landing page are rendered
\* when check_password returns
RunApp(ss) ==
    LET run == check_password(ss) IN
    /\ session_state' = run.session
    /\ returned' = run.returned
    /\ rendered' = run.screen

LoginOnScreen == rendered \in { "login", "login with error" }

\* the script runs: the first load, or a rerun caused by the page
Rerun ==
    /\ RunApp(session_state)
    /\ UNCHANGED << entered, secrets, outsideAuth >>

\* a changed text field: the widget's value is stored, the callback runs,
\* then the script reruns
Edit(k, v) ==
    /\ LoginOnScreen
    /\ session_state[k] # v
    /\ LET typed == [session_state EXCEPT ![k] = v] IN
       /\ entered' = [username |-> typed.username, password |-> typed.password]
       /\ RunApp(credentials_entered(typed, secrets))
    /\ UNCHANGED << secrets, outsideAuth >>

EditUsername == \E v \in Texts : Edit("username", v)

EditPassword == \E v \in Texts : Edit("password", v)

InitAuth ==
    /\ master_length = KnownMasterLength
    /\ kerf = KnownKerf
    /\ demands = KnownDemands
    /\ Fresh
    /\ prev = NoPrev
    /\ session_state = NoSession
    /\ rendered = "nothing"
    /\ returned = "not called"
    /\ entered = NoEntry
    /\ secrets \in Secrets
    /\ SearchIdle
    /\ DisplayIdle
    /\ FormIdle

NextAuth == Rerun \/ EditUsername \/ EditPassword

SpecAuth == InitAuth /\ [][NextAuth]_vars

\* C17: check_password returns True, and the page is rendered, only with
\* password_correct True in the session; password_correct is True only after
\* a credentials_entered that compared a username and a password both equal
\* to the configured secrets; in every other run nothing but the login form
\* is on the screen.
C17_LoginGate ==
    /\ returned = "True" <=> rendered = "page"
    /\ returned = "True" => session_state.password_correct = "True"
    /\ session_state.password_correct = "True" => entered = secrets
    /\ returned # "True" => rendered \in { "nothing", "login", "login with error" }

\* a visitor was let in: the matching credentials were entered and removed
C17_Witness ==
    /\ rendered = "page"
    /\ returned = "True"
    /\ entered = secrets
    /\ session_state.username = Absent

(***************************************************************************)
(* _generate_all_patterns statement by statement: the frames of dfs on a   *)
(* stack, each at its call ("call") or inside its for loop ("loop").       *)
(***************************************************************************)

Frame(i, remaining) == [i |-> i, remaining |-> remaining, at |-> "call", c |-> 0, max_c |-> 0]

Top == stack[Len(stack)]

Pop == SubSeq(stack, 1, Len(stack) - 1)

Running == phase = "running" /\ stack # << >>

\* the arguments L and widths of the traced call (within the bounds they
\* fit the integers of the model)
SearchL == ToInt(sc.L_eff)

SearchWidths == [i \in DOMAIN sc.widths_eff |-> ToInt(sc.widths_eff[i])]

\* a loop that never advances
SameCount(c) == c

\* the next value of range(max_c + 1)
NextCount(c) == c + 1

\* m, patterns, max_counts and the call dfs(0, L, [0] * m)
SearchStart ==
    /\ phase = "start"
    /\ LET zero == \E i \in DOMAIN SearchWidths : SearchWidths[i] = 0 IN
       /\ fault' = IF zero THEN "ZeroDivisionError" ELSE ""
       /\ phase' = IF zero THEN "raised" ELSE "running"
       /\ max_counts' = IF zero THEN max_counts
                        ELSE [i \in DOMAIN SearchWidths |-> SearchL \div SearchWidths[i]]
       /\ stack' = IF zero THEN stack ELSE << Frame(1, SearchL) >>
       /\ current' = IF zero THEN current ELSE [i \in DOMAIN SearchWidths |-> 0]
    /\ found' = << >>
    /\ UNCHANGED outsideSearch

\* if i == m: the pattern is recorded unless it is all zero; return
SearchLeaf ==
    /\ Running
    /\ Top.at = "call"
    /\ Top.i = Len(SearchWidths) + 1
    /\ found' = IF AnyPositive(current) THEN Append(found, current) ELSE found
    /\ stack' = Pop
    /\ UNCHANGED << phase, max_counts, current, fault, outsideSearch >>

\* w = widths[i]; max_c = min(max_counts[i], remaining // w)
SearchBound ==
    /\ Running
    /\ Top.at = "call"
    /\ Top.i <= Len(SearchWidths)
    /\ LET zero == SearchWidths[Top.i] = 0 IN
       /\ fault' = IF zero THEN "ZeroDivisionError" ELSE fault
       /\ phase' = IF zero THEN "raised" ELSE phase
       /\ stack' = IF zero THEN stack
                   ELSE [stack EXCEPT ![Len(stack)] =
                           [@ EXCEPT !.at = "loop", !.c = 0,
                                     !.max_c = Min(max_counts[Top.i],
                                                   Top.remaining \div SearchWidths[Top.i])]]
    /\ UNCHANGED << max_counts, current, found, outsideSearch >>

\* one turn of the for loop: current[i] = c; dfs(i + 1, remaining - c * w, current)
SearchLoop ==
    /\ Running
    /\ Top.at = "loop"
    /\ Top.c \in CountRange(Top.max_c)
    /\ current' = [current EXCEPT ![Top.i] = Top.c]
    /\ stack' = Append([stack EXCEPT ![Len(stack)] = [@ EXCEPT !.c = NextCount(Top.c)]],
                       Frame(Top.i + 1,
                             Top.remaining - Top.c * SearchWidths[Top.i]))
    /\ UNCHANGED << phase, max_counts, found, fault, outsideSearch >>

\* the loop is exhausted: current[i] = 0 and the frame returns
SearchExit ==
    /\ Running
    /\ Top.at = "loop"
    /\ Top.c \notin CountRange(Top.max_c)
    /\ current' = [current EXCEPT ![Top.i] = 0]
    /\ stack' = Pop
    /\ UNCHANGED << phase, max_counts, found, fault, outsideSearch >>

\* return patterns
SearchReturn ==
    /\ phase = "running"
    /\ stack = << >>
    /\ phase' = "returned"
    /\ UNCHANGED << max_counts, stack, current, found, fault, outsideSearch >>

InitSearch ==
    /\ master_length = Flt(0, -1)
    /\ kerf = Flt(0, -1)
    /\ demands = << >>
    /\ pc = "enumerate"
    /\ \E l \in 0..MaxLeff, ws \in SeqsUpTo(1..MaxWidthEff, MaxItems) :
          sc = [ NoScaling EXCEPT !.L_eff = FromInt(l),
                                  !.widths_eff = [i \in DOMAIN ws |-> FromInt(ws[i])] ]
    /\ patterns = << >>
    /\ status = ""
    /\ x = << >>
    /\ cores = 0
    /\ outcome = "running"
    /\ result = EmptyDict
    /\ error = NoError
    /\ ran = {}
    /\ prev = NoPrev
    /\ AppIdle
    /\ SearchIdle
    /\ DisplayIdle
    /\ FormIdle

NextSearch ==
    \/ SearchStart
    \/ SearchLeaf
    \/ SearchBound
    \/ SearchLoop
    \/ SearchExit
    \/ SearchReturn

\* the interpreter keeps executing the call: a statement that can run does run
SpecSearch == InitSearch /\ [][NextSearch]_vars /\ WF_vars(NextSearch)

RECURSIVE WasteSum(_, _, _)
WasteSum(shown_cores, c, neg) ==
    IF c = 0 THEN Zero
    ELSE BigAdd(IF shown_cores[c].waste.neg = neg THEN shown_cores[c].waste.mag ELSE Zero,
                WasteSum(shown_cores, c - 1, neg))

\* the kerf loss of every core listed is the engine's max(0, n - 1) * kerf
EngineKerf(shown) ==
    \A c \in DOMAIN shown.cores :
        shown.cores[c].kerf_loss
          = KerfOfCuts(shown.cores[c].pieces_length, shown.cores[c].total_pieces,
                       InUnits(DisplayLength(master_length), shown.exp),
                       InUnits(kerf, shown.exp), shown.exp)

\* what is on the screen was computed from the Result the call just returned
ShownIsCurrent ==
    /\ Done /\ ReturnedResult
    /\ cores_data = CoresData(GetPlan(result), master_length, kerf)

\* the wastes listed add up to total_waste
WasteAddsUp ==
    LET shown_cores == cores_data.cores
        unit == Pow10(0 - cores_data.exp)
    IN  BigMul(WasteSum(shown_cores, Len(shown_cores), FALSE), result.total_waste.den)
          = BigAdd(BigMul(result.total_waste.num, unit),
                   BigMul(WasteSum(shown_cores, Len(shown_cores), TRUE),
                          result.total_waste.den))

\* C19: for a request of pairwise distinct widths, for every core that
\* display_result lists and _generate_plan_text exports, the kerf loss is the
\* engine's max(0, n - 1) * kerf, and the wastes listed for the cores of a
\* Result add up to its total_waste.
C19_DisplayAgrees ==
    cores_data.shown /\ DistinctWidths =>
        /\ EngineKerf(cores_data)
        /\ EngineKerf(plan_text)
        /\ ShownIsCurrent => WasteAddsUp

(***************************************************************************)
(* form_component: the fields, the three buttons and the call of the       *)
(* engine on Compute.                                                      *)
(***************************************************************************)

\* most rows of piece sizes on the form
MaxRows == 2

\* values typed into the fields: lengths 0.0 and 5.0 (one piece of 3.0 to a
\* core); kerfs 0.0 and 0.25; sizes 0.0, 3.0, 3.00001 (3.0 when rounded to 4
\* places) and 12.0
FormLengths == { Flt(0, -1), Flt(50, -1) }

FormBlades == { Flt(0, -1), Flt(25, -2) }

FormSizes == { Flt(0, -1), Flt(30, -1), Flt(300001, -5), Flt(120, -1) }

FormQtys == { 1, 2 }

StockQtys == { 1, 2 }

\* a number_input without value starts at its min_value
DefaultRow == [size |-> Flt(0, -1), qty |-> 1]

\* {"size": 1, "qty": 1}
ResetRow == [size |-> Flt(10, -1), qty |-> 1]

MsgTooLong == "Cut piece size cannot be greater than the master core length."

MsgDuplicate == "Cut piece sizes must be unique."

MsgStock == "You'll need more master core in the stock...... It won't be able to divided into those cut sizes..."

MsgComplete == "Optimization complete!"

\* a check that lets every size through
NeverTooLong(size, ml) == FALSE

\* float(piece["size"]) > float(master_core_length)
TooLong(size, ml) == FloatLt(ml, size)

\* round(float(piece["size"]), 4), in units of 0.0001
Round4(size) == ToIntegralHalfUp([c |-> size.c, e |-> size.e + 4])

\* len(sizes) != len(set(sizes))
Duplicates(pieces) ==
    \E i, j \in DOMAIN pieces : i # j /\ Round4(pieces[i].size) = Round4(pieces[j].size)

\* the truth value of a float
Truthy(f) == f.c # << >>

\* the demands built from the pieces that have a size and a quantity
RECURSIVE Demands(_)
Demands(pieces) ==
    IF pieces = << >> THEN << >>
    ELSE LET piece == Head(pieces)
         IN  (IF Truthy(piece.size) /\ piece.qty # 0
              THEN << [ width |-> piece.size, quantity |-> Flt(10 * piece.qty, -1) ] >>
              ELSE << >>)
             \o Demands(Tail(pieces))

\* the ways one call optimize_unlimited_stock_gg(ml, dem, kerf = kf) can end
CallOutcomes(ml, dem, kf) ==
    LET msg == ValidationError(ml, kf, dem)
        s   == ScaleInputs(ml, kf, WidthsF(dem))
        found_patterns == GenerateAllPatterns(s.L_eff, s.widths_eff)
        Raises(path, type, m) ==
            [ outcome |-> "raised", path |-> path, result |-> EmptyDict,
              error |-> [type |-> type, msg |-> m] ]
        Returns(path, r) ==
            [ outcome |-> "returned", path |-> path, result |-> r, error |-> NoError ]
    IN  IF msg # "" THEN { Raises("invalid", "ValueError", msg) }
        ELSE IF SumSeq(Qty(dem)) = 0 THEN { Returns("zero demand", TrivialResult) }
        ELSE IF Oversized(s) THEN { Raises("oversized", "ValueError", MsgOversize) }
        ELSE { Raises("no solver", "RuntimeError", MsgNoSolver) }
             \cup { Returns("not optimal", EmptyDict) :
                       st \in SolveStatuses(found_patterns, Qty(dem)) \ { "OPTIMAL" } }
             \cup { IF InfeasibleUsed(found_patterns, xs, s.widths, s.k, s.L)
                    THEN Raises("recheck", "RuntimeError", MsgInfeasible)
                    ELSE Returns("plan", BuildResult(found_patterns, xs, ObjectiveValue(xs),
                                                      s, WidthsF(dem))) :
                       xs \in IF "OPTIMAL" \in SolveStatuses(found_patterns, Qty(dem))
                              THEN OptimalSolutions(found_patterns, Qty(dem)) ELSE {} }

\* a form without the stock check
NoCores(r) == 0

\* result.get("cores_required", 0)
GetCores(r) == IF "cores_required" \in DOMAIN r THEN r.cores_required ELSE 0

Ran(button, message) == [NoSubmission EXCEPT !.button = button, !.message = message]

Called(message, ml, dem, kf, path) ==
    [ button |-> "compute", message |-> message, called |-> TRUE, path |-> path,
      master_length |-> ml, demands |-> dem, kerf |-> kf ]

\* the first run of the form in a session
InitForm ==
    /\ master_length = Flt(0, -1)
    /\ kerf = Flt(0, -1)
    /\ demands = << >>
    /\ Fresh
    /\ prev = NoPrev
    /\ AppIdle
    /\ SearchIdle
    /\ DisplayIdle
    /\ quantity_master_core \in BOOLEAN
    /\ master_core_length = Flt(0, -1)
    /\ master_core_qty = 1
    /\ blade_size = Flt(25, -2)
    /\ widgets = << DefaultRow >>
    /\ cut_pieces = << DefaultRow >>
    /\ optimization_result = NoResult
    /\ submission = NoSubmission

\* The fields of a form reach the script only when one of its buttons is
\* pressed.  Sent(f) says that f holds the values sent with a press: those
\* of the last run, with at most one field changed by the user since.
Fields ==
    [ master_core_length |-> master_core_length, master_core_qty |-> master_core_qty,
      blade_size |-> blade_size, widgets |-> widgets ]

Edits ==
    { Fields }
    \cup { [Fields EXCEPT !.master_core_length = v] : v \in FormLengths }
    \cup { [Fields EXCEPT !.master_core_qty = v] :
              v \in IF quantity_master_core THEN StockQtys ELSE {} }
    \cup { [Fields EXCEPT !.blade_size = v] : v \in FormBlades }
    \cup UNION { { [Fields EXCEPT !.widgets[i].size = v] : v \in FormSizes }
                    : i \in DOMAIN widgets }
    \cup UNION { { [Fields EXCEPT !.widgets[i].qty = v] : v \in FormQtys }
                    : i \in DOMAIN widgets }

\* the rows rendered for a list of n pieces: the fields keep the values
\* sent, a new field starts at its default
RowsOf(f, n) == [i \in 1..n |-> IF i <= Len(f.widgets) THEN f.widgets[i] ELSE DefaultRow]

\* the number_inputs return the values sent
ReadFields(f) ==
    /\ master_core_length' = f.master_core_length
    /\ master_core_qty' = f.master_core_qty
    /\ blade_size' = f.blade_size

\* Remove: the rows take the values of their fields, one piece is popped and
\* the script reruns, the remaining rows taking the values of the first fields
Remove ==
    /\ Len(cut_pieces) > 1
    /\ \E f \in Edits, remove_index \in DOMAIN cut_pieces :
          LET n == Len(cut_pieces) - 1 IN
          /\ ReadFields(f)
          /\ widgets' = SubSeq(RowsOf(f, n + 1), 1, n)
          /\ cut_pieces' = SubSeq(RowsOf(f, n + 1), 1, n)
    /\ submission' = Ran("none", "")
    /\ UNCHANGED << quantity_master_core, optimization_result, outsideForm >>

\* Add Piece Size: a piece is appended and the script reruns
AddPiece ==
    /\ Len(cut_pieces) < MaxRows
    /\ \E f \in Edits :
          /\ ReadFields(f)
          /\ widgets' = Append(RowsOf(f, Len(cut_pieces)), DefaultRow)
          /\ cut_pieces' = Append(RowsOf(f, Len(cut_pieces)), DefaultRow)
    /\ submission' = Ran("none", "")
    /\ UNCHANGED << quantity_master_core, optimization_result, outsideForm >>

\* the handler of Compute on the values f
Submitted(f) ==
    LET pieces  == RowsOf(f, Len(cut_pieces))
        ml      == f.master_core_length
        invalid == \E i \in DOMAIN pieces : TooLong(pieces[i].size, ml)
        dem     == Demands(pieces)
    IN  /\ widgets' = pieces
        /\ IF invalid
           THEN /\ submission' = Ran("compute", MsgTooLong)
                /\ cut_pieces' = pieces
                /\ UNCHANGED optimization_result
           ELSE IF Duplicates(pieces)
           THEN /\ submission' = Ran("compute", MsgDuplicate)
                /\ cut_pieces' = pieces
                /\ UNCHANGED optimization_result
           ELSE IF ~(Truthy(ml) /\ dem # << >>)
           THEN /\ submission' = Ran("compute", "")
                /\ cut_pieces' = pieces
                /\ UNCHANGED optimization_result
           ELSE \E o \in CallOutcomes(ml, dem, f.blade_size) :
                   IF o.outcome = "raised"
                   THEN /\ submission' = Called(o.error.msg, ml, dem, f.blade_size, o.path)
                        /\ cut_pieces' = pieces
                        /\ UNCHANGED optimization_result
                   ELSE IF quantity_master_core /\ f.master_core_qty < GetCores(o.result)
                   THEN /\ submission' = Called(MsgStock, ml, dem, f.blade_size, o.path)
                        /\ cut_pieces' = pieces
                        /\ UNCHANGED optimization_result
                   ELSE /\ submission' = Called(MsgComplete, ml, dem, f.blade_size, o.path)
                        /\ optimization_result' =
                              [ stored |-> TRUE, result |-> o.result,
                                master_length |-> ml, kerf |-> f.blade_size ]
                        /\ cut_pieces' = << ResetRow >>

\* Compute
Compute ==
    /\ \E f \in Edits : ReadFields(f) /\ Submitted(f)
    /\ UNCHANGED << quantity_master_core, outsideForm >>

NextForm ==
    \/ Remove
    \/ AddPiece
    \/ Compute

SpecForm == InitForm /\ [][NextForm]_vars

\* C20: whenever the form has called the engine, master_length > 0, kerf >= 0,
\* every demand has 0 < width <= master_length and a quantity >= 1, the widths
\* are pairwise distinct, and the call met neither the invalid-configuration
\* nor the oversized-item error nor the zero-demand return.
C20_FormCallsAccepted ==
    submission.called =>
        LET dem == submission.demands IN
        /\ ~FloatLeZero(submission.master_length)
        /\ ~FloatLtZero(submission.kerf)
        /\ \A i \in DOMAIN dem :
              /\ ~FloatLeZero(dem[i].width)
              /\ ~FloatLt(submission.master_length, dem[i].width)
              /\ IntOf(dem[i].quantity) >= 1
        /\ \A i, j \in DOMAIN dem : i # j => dem[i].width # dem[j].width
        /\ submission.path \notin { "invalid", "oversized", "zero demand" }

\* the form called the engine with the one size typed into two rows, the
\* row of size 0 left out, and the plan that came back was stored
C20_Witness ==
    /\ submission.called
    /\ Len(widgets) = 2
    /\ Len(submission.demands) = 1
    /\ submission.path = "plan"
    /\ optimization_result.stored
    /\ optimization_result.result.cores_required = 1

\* the run just made handled Compute and refused the submission
Refused ==
    /\ submission.button = "compute"
    /\ submission.message \in { MsgTooLong, MsgDuplicate, MsgStock }

\* the run just made handled Compute and stored a result
Stored ==
    /\ submission.button = "compute"
    /\ submission.message = MsgComplete

====
